---- MODULE Spec2Model ----
(***************************************************************************)
(* Model of Bear's intercept-build post-processing (src/bear/bear.py):     *)
(* trace decoding, compiler/argument classification, Compilation records, *)
(* set de-duplication, and compile_commands.json load/save.               *)
(*                                                                         *)
(* Strings are TLA+ strings; Len, \o and SubSeq act on their characters.   *)
(* Python's None is the empty tuple <<>>, and a present optional value x   *)
(* is the one-element tuple <<x>>.                                         *)
(***************************************************************************)
EXTENDS Integers, Sequences, FiniteSets, TLC

\* ------------------------------------------------------------------------
\* The one element of a singleton set. A value that is used more than once
\* is bound as `The({... x ... : x \in {value}})`, which computes it once.
\* ------------------------------------------------------------------------
The(S) == CHOOSE x \in S : TRUE

\* ------------------------------------------------------------------------
\* Bounds of the model
\* ------------------------------------------------------------------------
\* trace files the builds leave behind, all runs together
MaxTraces == 2
\* consecutive runs of intercept-build on the same output file
MaxRuns == 2
\* argv tokens after argv[0] in the command-splitter harness
MaxArgs == 3

\* ------------------------------------------------------------------------
\* Character-level helpers (str methods used by the code and by os.path)
\* ------------------------------------------------------------------------
Char(s, i) == SubSeq(s, i, i)

StartsWith(s, p) == Len(s) >= Len(p) /\ SubSeq(s, 1, Len(p)) = p

EndsWith(s, p) == Len(s) >= Len(p) /\ SubSeq(s, Len(s) - Len(p) + 1, Len(s)) = p

\* str.rfind(ch) + 1: the 1-based index of the last ch in s, 0 when absent
RFind(s, ch) ==
    LET hits == {i \in 1..Len(s) : Char(s, i) = ch}
    IN  IF hits = {} THEN 0 ELSE CHOOSE i \in hits : \A j \in hits : j <= i

\* str.split(sep) for a one-character separator
RECURSIVE Split(_, _)
Split(s, sep) ==
    LET hits == {i \in 1..Len(s) : Char(s, i) = sep}
    IN  IF hits = {} THEN <<s>>
        ELSE LET i == CHOOSE k \in hits : \A j \in hits : k <= j
             IN  <<SubSeq(s, 1, i - 1)>> \o Split(SubSeq(s, i + 1, Len(s)), sep)

\* sep.join(parts)
RECURSIVE Join(_, _)
Join(parts, sep) ==
    IF parts = <<>> THEN ""
    ELSE IF Len(parts) = 1 THEN parts[1]
    ELSE parts[1] \o sep \o Join(Tail(parts), sep)

SelectNonEmpty(parts) == SelectSeq(parts, LAMBDA x : x # "")

Digits == {"0", "1", "2", "3", "4", "5", "6", "7", "8", "9"}

IsDigits(s) == Len(s) >= 1 /\ \A i \in 1..Len(s) : Char(s, i) \in Digits

\* ------------------------------------------------------------------------
\* os.path (posixpath), as called by the code
\* ------------------------------------------------------------------------
\* the working directory of the intercept-build process itself
GetCwd == "/w"

isabs(path) == StartsWith(path, "/")

basename(path) == SubSeq(path, RFind(path, "/") + 1, Len(path))

\* os.path.join(a, b)
join(a, b) ==
    IF isabs(b) THEN b
    ELSE IF a = "" \/ EndsWith(a, "/") THEN a \o b
    ELSE a \o "/" \o b

\* the component loop of posixpath.normpath
RECURSIVE NormComps(_, _, _)
NormComps(comps, new_comps, initial_slashes) ==
    IF comps = <<>> THEN new_comps
    ELSE LET comp == Head(comps) IN
         IF comp \in {"", "."}
         THEN NormComps(Tail(comps), new_comps, initial_slashes)
         ELSE IF \/ comp # ".."
                 \/ (initial_slashes = 0 /\ new_comps = <<>>)
                 \/ (new_comps # <<>> /\ new_comps[Len(new_comps)] = "..")
         THEN NormComps(Tail(comps), Append(new_comps, comp), initial_slashes)
         ELSE IF new_comps # <<>>
         THEN NormComps(Tail(comps), SubSeq(new_comps, 1, Len(new_comps) - 1),
                        initial_slashes)
         ELSE NormComps(Tail(comps), new_comps, initial_slashes)

\* os.path.normpath(path)
normpath(path) ==
    IF path = "" THEN "."
    ELSE LET initial_slashes ==
                 IF ~StartsWith(path, "/") THEN 0
                 ELSE IF StartsWith(path, "//") /\ ~StartsWith(path, "///")
                      THEN 2 ELSE 1
             comps == NormComps(Split(path, "/"), <<>>, initial_slashes)
             body == Join(comps, "/")
             full == (IF initial_slashes = 2 THEN "//"
                      ELSE IF initial_slashes = 1 THEN "/" ELSE "") \o body
         IN  IF full = "" THEN "." ELSE full

\* os.path.abspath(path)
abspath(path) == normpath(join(GetCwd, path))

\* length of the common prefix of two component lists
RECURSIVE CommonLen(_, _)
CommonLen(a, b) ==
    IF a = <<>> \/ b = <<>> \/ Head(a) # Head(b) THEN 0
    ELSE 1 + CommonLen(Tail(a), Tail(b))

\* os.path.relpath(path, start)
relpath(path, start) ==
    LET start_list == SelectNonEmpty(Split(abspath(start), "/"))
        path_list == SelectNonEmpty(Split(abspath(path), "/"))
        i == CommonLen(start_list, path_list)
        rel_list == [k \in 1..(Len(start_list) - i) |-> ".."]
                    \o SubSeq(path_list, i + 1, Len(path_list))
    IN  IF rel_list = <<>> THEN "." ELSE Join(rel_list, "/")

\* os.path.splitext(p)[1]: the extension, leading dots of the name ignored
splitext_ext(p) ==
    LET sepIndex == RFind(p, "/")
        dotIndex == RFind(p, ".")
    IN  IF dotIndex > sepIndex
           /\ \E k \in (sepIndex + 1)..(dotIndex - 1) : Char(p, k) # "."
        THEN SubSeq(p, dotIndex, Len(p))
        ELSE ""

\* ------------------------------------------------------------------------
\* The file system and the MPI wrappers the run finds (its environment)
\* ------------------------------------------------------------------------
ExistingDirs == {"/", "/p", "/p/sub", "/w"}

ExistingFiles == {"/p/a.c", "/p/b.c", "/p/a.cpp", "/p/-x.c", "/p/sub/d.c"}

\* walk the components of an absolute path the way the kernel resolves them
RECURSIVE Resolve(_, _)
Resolve(comps, cur) ==
    IF comps = <<>> THEN <<cur>>
    ELSE LET comp == Head(comps)
             here == IF cur = <<>> THEN "/" ELSE "/" \o Join(cur, "/")
         IN  IF here \notin ExistingDirs THEN <<>>
             ELSE IF comp \in {"", "."} THEN Resolve(Tail(comps), cur)
             ELSE IF comp = ".."
             THEN Resolve(Tail(comps),
                          IF cur = <<>> THEN cur ELSE SubSeq(cur, 1, Len(cur) - 1))
             ELSE Resolve(Tail(comps), Append(cur, comp))

\* a test that takes every path for an existing file
isfile_always(path) == TRUE

\* os.path.isfile(path)
isfile(path) ==
    LET full == join(GetCwd, path)
        r == Resolve(Tail(Split(full, "/")), <<>>)
    IN  /\ r # <<>>
        /\ ~EndsWith(full, "/")
        /\ ("/" \o Join(r[1], "/")) \in ExistingFiles

\* ------------------------------------------------------------------------
\* Module constants
\* ------------------------------------------------------------------------
\* the table with every skip count 0
IGNORED_FLAGS_alone ==
    [f \in {"-MD", "-MMD", "-MG", "-MP", "-static", "-shared", "-s",
            "-rdynamic", "-nologo", "-EHsc", "-EHa", "-MF", "-MT", "-MQ", "-l",
            "-L", "-u", "-z", "-T", "-Xlinker"} |-> 0]

\* IGNORED_FLAGS: option name -> number of following arguments to skip
IGNORED_FLAGS ==
    [f \in {"-MD", "-MMD", "-MG", "-MP", "-static", "-shared", "-s",
            "-rdynamic", "-nologo", "-EHsc", "-EHa"} |-> 0]
    @@ [f \in {"-MF", "-MT", "-MQ", "-l", "-L", "-u", "-z", "-T",
               "-Xlinker"} |-> 1]

C_LANG == 0
CPLUSPLUS_LANG == 1
FORTRAN_LANG == 2
OTHER_LANG == 3

\* (-?\d+(\.\d+){0,2})?$ when dash_optional, (-\d+(\.\d+){0,2})?$ otherwise
VersionSuffix(s, dash_optional) ==
    \/ s = ""
    \/ LET dashed == StartsWith(s, "-")
           body == IF dashed THEN SubSeq(s, 2, Len(s)) ELSE s
           nums == Split(body, ".")
       IN  /\ dashed \/ dash_optional
           /\ Len(nums) \in 1..3
           /\ \A i \in 1..Len(nums) : IsDigits(nums[i])

\* ^([^-]*-)*<one of first><rest><version>$ : an optional dash-terminated
\* prefix, the compiler stem, an optional version
PrefixedStem(name, first, rest, dash_optional) ==
    \E k \in 0..Len(name) :
        /\ k = 0 \/ Char(name, k) = "-"
        /\ LET stem == SubSeq(name, k + 1, Len(name))
               n == 1 + Len(rest)
           IN  /\ Len(stem) >= n
               /\ Char(stem, 1) \in first
               /\ SubSeq(stem, 2, n) = rest
               /\ VersionSuffix(SubSeq(stem, n + 1, Len(stem)), dash_optional)

\* COMPILER_PATTERN_WRAPPER
COMPILER_PATTERN_WRAPPER(name) == name \in {"distcc", "ccache"}

\* COMPILER_PATTERNS_MPI_WRAPPER
COMPILER_PATTERNS_MPI_WRAPPER(name) ==
    name \in {"mpicc", "mpicxx", "mpiCC", "mpic++", "mpifort", "mpif77", "mpif90"}

\* COMPILER_PATTERNS_CC
COMPILER_PATTERNS_CC(name) ==
    \/ PrefixedStem(name, {"m", "g"}, "cc", TRUE)
    \/ \E k \in 0..Len(name) :
          /\ k = 0 \/ Char(name, k) = "-"
          /\ LET stem == SubSeq(name, k + 1, Len(name))
             IN  /\ StartsWith(stem, "clang")
                 /\ VersionSuffix(SubSeq(stem, 6, Len(stem)), FALSE)
    \/ name \in {"cc", "icc"}
    \/ name \in {"gxlc", "xlc"}

\* COMPILER_PATTERNS_CXX
COMPILER_PATTERNS_CXX(name) ==
    \/ name \in {"c++", "cxx", "CC"}
    \/ PrefixedStem(name, {"m", "g"}, "++", TRUE)
    \/ \E k \in 0..Len(name) :
          /\ k = 0 \/ Char(name, k) = "-"
          /\ LET stem == SubSeq(name, k + 1, Len(name))
             IN  /\ StartsWith(stem, "clang++")
                 /\ VersionSuffix(SubSeq(stem, 8, Len(stem)), FALSE)
    \/ name = "icpc"
    \/ name \in {"gxlC", "xlC", "gxlc++", "xlc++"}

\* COMPILER_PATTERNS_FORTRAN
COMPILER_PATTERNS_FORTRAN(name) ==
    \/ name \in {"f95", "gfortran", "ifort"}
    \/ name \in {"pgf77", "pgf90", "pgf95", "pgfortran"}

\* ------------------------------------------------------------------------
\* class Tools
\* ------------------------------------------------------------------------
\* Tools.__init__
Tools(only_use, c_compilers, cxx_compilers, fortran_compilers) ==
    [ignore |-> only_use,
     c_compilers |-> [i \in 1..Len(c_compilers) |-> basename(c_compilers[i])],
     cxx_compilers |-> [i \in 1..Len(cxx_compilers) |-> basename(cxx_compilers[i])],
     fortran_compilers |->
         [i \in 1..Len(fortran_compilers) |-> basename(fortran_compilers[i])]]

\* is_wrapper with a pattern that knows ccache only
is_wrapper_ccache(cmd) == cmd = "ccache"

is_wrapper(cmd) == COMPILER_PATTERN_WRAPPER(cmd)

is_mpi_wrapper(cmd) == COMPILER_PATTERNS_MPI_WRAPPER(cmd)

_is_sting_match(candidate, compilers) ==
    \E i \in 1..Len(compilers) : candidate = compilers[i]

is_c_compiler(tools, cmd) ==
    LET use_match == _is_sting_match(cmd, tools.c_compilers)
        pattern_match == COMPILER_PATTERNS_CC(cmd)
    IN  IF tools.ignore THEN use_match ELSE (use_match \/ pattern_match)

is_cxx_compiler(tools, cmd) ==
    LET use_match == _is_sting_match(cmd, tools.cxx_compilers)
        pattern_match == COMPILER_PATTERNS_CXX(cmd)
    IN  IF tools.ignore THEN use_match ELSE (use_match \/ pattern_match)

is_fortran_compiler(tools, cmd) ==
    LET use_match == _is_sting_match(cmd, tools.fortran_compilers)
        pattern_match == COMPILER_PATTERNS_FORTRAN(cmd)
    IN  IF tools.ignore THEN use_match ELSE (use_match \/ pattern_match)

\* ------------------------------------------------------------------------
\* classify_source
\* ------------------------------------------------------------------------
SourceMapping(c_compiler) ==
    [e \in {".c"} |-> IF c_compiler THEN "c" ELSE "c++"]
    @@ [e \in {".i"} |-> IF c_compiler THEN "c-cpp-output" ELSE "c++-cpp-output"]
    @@ [e \in {".ii"} |-> "c++-cpp-output"]
    @@ [e \in {".m"} |-> "objective-c"]
    @@ [e \in {".mi"} |-> "objective-c-cpp-output"]
    @@ [e \in {".mm"} |-> "objective-c++"]
    @@ [e \in {".mii"} |-> "objective-c++-cpp-output"]
    @@ [e \in {".C", ".cc", ".CC", ".cp", ".cpp", ".cxx", ".c++", ".C++", ".txx"}
           |-> "c++"]
    @@ [e \in {".s", ".S", ".sx", ".asm"} |-> "assembly"]
    @@ [e \in {".f95", ".F95", ".f90", ".F90", ".f", ".F", ".FOR", ".f77", ".fc",
               ".for", ".ftn", ".fpp"} |-> "fortran"]

\* classify_source(filename): <<language>>, or <<>> for None
classify_source(filename) ==
    LET mapping == SourceMapping(TRUE)
        extension == splitext_ext(basename(filename))
    IN  IF extension \in DOMAIN mapping THEN <<mapping[extension]>> ELSE <<>>

\* ------------------------------------------------------------------------
\* shell_split
\* ------------------------------------------------------------------------
Whitespace == {" ", "\t", "\r", "\n"}

\* re.sub(r'\\([<escapable>])', r'\1', arg), scanning left to right
RECURSIVE SubBackslash(_, _)
SubBackslash(arg, escapable) ==
    IF arg = "" THEN ""
    ELSE IF Len(arg) >= 2 /\ Char(arg, 1) = "\\" /\ Char(arg, 2) \in escapable
    THEN Char(arg, 2) \o SubBackslash(SubSeq(arg, 3, Len(arg)), escapable)
    ELSE Char(arg, 1) \o SubBackslash(Tail(arg), escapable)

\* shell_split.unescape
unescape(arg) ==
    IF Len(arg) >= 2 /\ Char(arg, 1) = Char(arg, Len(arg)) /\ Char(arg, 1) = "\""
    THEN SubBackslash(SubSeq(arg, 2, Len(arg) - 1), {"\"", "\\"})
    ELSE SubBackslash(arg, {"\\", " ", "$", "%", "&", "(", ")", "[", "]", "{",
                            "}", "*", "|", "<", ">", "@", "?", "!"})

\* shlex.split(string): the POSIX tokenizer with whitespace_split, as a state
\* machine over the characters. state is " " (between tokens), "a" (in a
\* word), a quote character, or "\\" (after a backslash); the result is
\* [ok, tokens], ok = FALSE standing for shlex's ValueError.
RECURSIVE ShlexScan(_, _, _, _, _, _, _)
ShlexScan(string, i, state, escapedstate, token, quoted, tokens) ==
    LET emit == IF token # "" \/ quoted THEN Append(tokens, token) ELSE tokens
    IN
    IF i > Len(string)
    THEN IF state \in {"'", "\"", "\\"}
         THEN [ok |-> FALSE, tokens |-> <<>>]
         ELSE [ok |-> TRUE, tokens |-> emit]
    ELSE LET c == Char(string, i) IN
         IF state = " "
         THEN IF c \in Whitespace
              THEN ShlexScan(string, i + 1, " ", escapedstate, "", FALSE, emit)
              ELSE IF c = "\\"
              THEN ShlexScan(string, i + 1, "\\", "a", token, quoted, tokens)
              ELSE IF c \in {"'", "\""}
              THEN ShlexScan(string, i + 1, c, escapedstate, token, TRUE, tokens)
              ELSE ShlexScan(string, i + 1, "a", escapedstate, c, quoted, tokens)
         ELSE IF state \in {"'", "\""}
         THEN IF c = state
              THEN ShlexScan(string, i + 1, "a", escapedstate, token, TRUE, tokens)
              ELSE IF c = "\\" /\ state = "\""
              THEN ShlexScan(string, i + 1, "\\", state, token, TRUE, tokens)
              ELSE ShlexScan(string, i + 1, state, escapedstate, token \o c, TRUE,
                             tokens)
         ELSE IF state = "\\"
         THEN IF escapedstate \in {"'", "\""} /\ c # "\\" /\ c # escapedstate
              THEN ShlexScan(string, i + 1, escapedstate, escapedstate,
                             token \o "\\" \o c, quoted, tokens)
              ELSE ShlexScan(string, i + 1, escapedstate, escapedstate, token \o c,
                             quoted, tokens)
         ELSE \* state = "a"
              IF c \in Whitespace
              THEN ShlexScan(string, i + 1, " ", escapedstate, "", FALSE, emit)
              ELSE IF c \in {"'", "\""}
              THEN ShlexScan(string, i + 1, c, escapedstate, token, TRUE, tokens)
              ELSE IF c = "\\"
              THEN ShlexScan(string, i + 1, "\\", "a", token, quoted, tokens)
              ELSE ShlexScan(string, i + 1, "a", escapedstate, token \o c, quoted,
                             tokens)

\* shell_split(string): [ok, tokens]
shell_split(string) ==
    LET r == ShlexScan(string, 1, " ", " ", "", FALSE, <<>>)
    IN  [ok |-> r.ok,
         tokens |-> [k \in 1..Len(r.tokens) |-> unescape(r.tokens[k])]]

\* ------------------------------------------------------------------------
\* State
\* ------------------------------------------------------------------------
VARIABLES
    pep479,      \* <<b>> once the run has shown its interpreter: b = TRUE
                 \* turns a StopIteration escaping a generator into
                 \* RuntimeError (Python >= 3.7), FALSE lets it end the
                 \* generator silently (older interpreters); <<>> before
    mpiEnv,      \* <<answers>> once the run has queried an MPI wrapper:
                 \* what `<wrapper> -show` and `<wrapper> --showme` answer
    tools,       \* the Tools object of the run
    args,        \* parsed command line of the run: append, field_output
    pc,          \* position of intercept_build
    runs,        \* runs started so far
    tmp_dir,     \* trace files of the build, in ctime order; each a byte string
    tmp_exists,  \* the temporary trace directory is on disk
    idx,         \* trace files consumed so far
    filtered,    \* capture's set, in insertion order
    previous,    \* compilations loaded from the prior database
    entries,     \* the list save() serialised and is about to dump
    cdb,         \* the output file: [exists, content]
    exit_code,   \* <<>> while running, <<code>> once the process has ended
    build_code,  \* exit code of the build command
    hist,        \* observations of the run (not program state)
    unit         \* the command-splitter harness

vars == <<pep479, mpiEnv, tools, args, pc, runs, tmp_dir, tmp_exists, idx,
          filtered, previous, entries, cdb, exit_code, build_code, hist, unit>>

\* ------------------------------------------------------------------------
\* get_mpi_call
\* ------------------------------------------------------------------------
\* frames _split_compiler may nest before the interpreter raises RecursionError
RecursionLimit == 6

\* run_command([wrapper] + query_flags): [ok, output]; ok = FALSE stands for
\* the exception of a failed sub-process
run_command(command, env) == env.mpi[command[2]]

\* get_mpi_call(wrapper): [st, value]; st = "raise" is the RuntimeError
get_mpi_call(wrapper, env) ==
    LET try(query_flags) ==
            LET r == run_command(<<wrapper>> \o query_flags, env)
            IN  IF r.ok /\ r.output # <<>>
                THEN The({IF split.ok THEN <<split.tokens>> ELSE <<>> :
                          split \in {shell_split(r.output[1])}})
                ELSE <<>>
    IN  The({IF first # <<>> THEN [st |-> "ok", value |-> first[1]]
             ELSE The({IF second # <<>> THEN [st |-> "ok", value |-> second[1]]
                       ELSE [st |-> "raise", value |-> <<>>] :
                       second \in {try(<<"--showme">>)}}) :
             first \in {try(<<"-show">>)}})

\* ------------------------------------------------------------------------
\* class Compilation
\* ------------------------------------------------------------------------
\* Compilation.__init__
Compilation(compiler, language, phase, flags, source, directory, output) ==
    LET dir == normpath(directory)
    IN  [compiler |-> compiler,
         language |-> language,
         phase |-> phase,
         flags |-> flags,
         directory |-> dir,
         source |-> IF isabs(source) THEN source ELSE normpath(join(dir, source)),
         output |-> output]

\* as_dict without `candidate.pop("output", None)`
as_dict_with_output(self) ==
    [k \in (DOMAIN self) \ {"compiler", "language"} |-> self[k]]

\* Compilation.as_dict: the attributes without compiler, output and language
as_dict(self) ==
    [k \in (DOMAIN self) \ {"compiler", "output", "language"} |-> self[k]]

\* str(dict): the items in insertion order of the attributes
str_of_dict(d) ==
    LET order == <<"compiler", "language", "phase", "flags", "directory", "source",
                   "output">>
        keys == SelectSeq(order, LAMBDA k : k \in DOMAIN d)
    IN  [i \in 1..Len(keys) |-> <<keys[i], d[keys[i]]>>]

\* Compilation.__hash__: hash(str(self.as_dict())); the hash of a string is
\* a function of the string, kept here as the string itself
hash(self) == str_of_dict(as_dict(self))

\* Compilation.__eq__ (both operands are Compilation objects)
eq(self, other) == as_dict(self) = as_dict(other)

\* `is not None` in the place of the truth value
TruthyNotNone(opt) == opt # <<>>

\* the truth value of an optional string: None and "" are false
Truthy(opt) == opt # <<>> /\ opt[1] # ""

\* Compilation.as_db_entry
as_db_entry(self, field_output) ==
    LET source == relpath(self.source, self.directory)
    IN  IF Truthy(self.output)
        THEN LET result ==
                     [file |-> source,
                      arguments |-> <<self.compiler, self.phase>> \o self.flags
                                    \o <<"-o", self.output[1]>> \o <<source>>,
                      directory |-> self.directory]
             IN  IF field_output
                 THEN [file |-> result.file, arguments |-> result.arguments,
                       directory |-> result.directory, output |-> self.output[1]]
                 ELSE result
        ELSE [file |-> source,
              arguments |-> <<self.compiler, self.phase>> \o self.flags
                            \o <<source>>,
              directory |-> self.directory]

\* The classifier reads its surroundings through env: env.mpi are the
\* answers of MPI wrappers, env.pep479 the interpreter's generator rule.
\* results of the classifier: st is "ok", "none" (the Python None) or "raise"
Ok(v) == [st |-> "ok", exc |-> "", value |-> v]
None == [st |-> "none", exc |-> "", value |-> <<>>]
Raise(e) == [st |-> "raise", exc |-> e, value |-> <<>>]

\* Compilation._split_compiler, with the depth of the recursion made explicit
RECURSIVE SplitCompilerAt(_, _, _, _)
SplitCompilerAt(command, tools_, env, depth) ==
    IF depth > RecursionLimit THEN Raise("RecursionError")
    ELSE IF command # <<>>
    THEN LET executable == basename(command[1])
             parameters == Tail(command)
         IN  IF is_wrapper(executable)
             THEN The({IF result.st = "none"
                       THEN Ok(<<command[1], C_LANG, parameters>>)
                       ELSE result :
                       result \in {SplitCompilerAt(parameters, tools_, env,
                                                   depth + 1)}})
             ELSE IF is_mpi_wrapper(executable)
             THEN The({IF mpi_call.st = "raise" THEN Raise("RuntimeError")
                       ELSE SplitCompilerAt(mpi_call.value \o parameters, tools_,
                                            env, depth + 1) :
                       mpi_call \in {get_mpi_call(command[1], env)}})
             ELSE IF is_c_compiler(tools_, executable)
             THEN Ok(<<command[1], C_LANG, parameters>>)
             ELSE IF is_cxx_compiler(tools_, executable)
             THEN Ok(<<command[1], CPLUSPLUS_LANG, parameters>>)
             ELSE IF is_fortran_compiler(tools_, executable)
             THEN Ok(<<command[1], FORTRAN_LANG, parameters>>)
             ELSE None
    ELSE None

\* _split_compiler that keeps command[0] of the outermost call as compiler
_split_compiler_outermost(command, tools_, env) ==
    The({IF r.st = "ok" THEN Ok(<<command[1], r.value[2], r.value[3]>>) ELSE r :
         r \in {SplitCompilerAt(command, tools_, env, 0)}})

_split_compiler(command, tools_, env) == SplitCompilerAt(command, tools_, env, 0)

\* the linker pattern without its -l and -L alternatives
IsLinkerFlagWl(arg) ==
    StartsWith(arg, "-Wl,") /\ Len(arg) >= 5 /\ Char(arg, 5) # "\n"

\* re.match(r'^-(l|L|Wl,).+', arg)
IsLinkerFlag(arg) ==
    \/ /\ StartsWith(arg, "-l") \/ StartsWith(arg, "-L")
       /\ Len(arg) >= 3 /\ Char(arg, 3) # "\n"
    \/ /\ StartsWith(arg, "-Wl,")
       /\ Len(arg) >= 5 /\ Char(arg, 5) # "\n"

\* re.match(r'^[^-].+', arg)
LooksLikeFile(arg) == Len(arg) >= 2 /\ Char(arg, 1) # "-" /\ Char(arg, 2) # "\n"

\* the same set without the preprocess-only flag
QuitFlagsWithoutE == {"-cc1", "-cc1as", "-M", "-MM", "-###"}

\* the flags of a compiler call in which the compilation pass is not involved
QuitFlags == {"-E", "-cc1", "-cc1as", "-M", "-MM", "-###"}

\* the loop of _split_command over the pull iterator args; i is the position
\* of the iterator, next(args) at the end raises StopIteration
RECURSIVE ScanArgs(_, _, _)
ScanArgs(arguments, i, result) ==
    IF i > Len(arguments) THEN Ok(result)
    ELSE LET arg == arguments[i] IN
         IF arg \in QuitFlags
         THEN None
         ELSE IF arg \in {"-S", "-c"}
         THEN ScanArgs(arguments, i + 1,
                       [result EXCEPT !.phase = Append(@, arg)])
         ELSE IF arg \in DOMAIN IGNORED_FLAGS
         THEN LET count == IGNORED_FLAGS[arg]
              IN  IF i + count > Len(arguments) THEN Raise("StopIteration")
                  ELSE ScanArgs(arguments, i + 1 + count, result)
         ELSE IF IsLinkerFlag(arg)
         THEN ScanArgs(arguments, i + 1, result)
         ELSE IF arg \in {"-D", "-U", "-I", "-include"}
         THEN IF i + 1 > Len(arguments) THEN Raise("StopIteration")
              ELSE ScanArgs(arguments, i + 2,
                            [result EXCEPT !.flags = @ \o <<arg, arguments[i + 1]>>])
         ELSE IF arg = "-o"
         THEN IF i + 1 > Len(arguments) THEN Raise("StopIteration")
              ELSE ScanArgs(arguments, i + 2,
                            [result EXCEPT !.output = Append(@, arguments[i + 1])])
         ELSE IF LooksLikeFile(arg) /\ classify_source(arg) # <<>>
         THEN ScanArgs(arguments, i + 1, [result EXCEPT !.files = Append(@, arg)])
         ELSE ScanArgs(arguments, i + 1, [result EXCEPT !.flags = Append(@, arg)])

\* Compilation._split_command: a CompilationCommand, None, or an exception
_split_command(command, tools_, env) ==
    The({IF compiler_and_arguments.st # "ok" THEN compiler_and_arguments
         ELSE LET result == [compiler |-> compiler_and_arguments.value[1],
                             language |-> compiler_and_arguments.value[2],
                             phase |-> <<>>,
                             flags |-> <<>>,
                             files |-> <<>>,
                             output |-> <<>>]
              IN  The({IF scanned.st = "ok" /\ scanned.value.files = <<>>
                       THEN None
                       ELSE scanned :
                       scanned \in {ScanArgs(compiler_and_arguments.value[3], 1,
                                             result)}}) :
         compiler_and_arguments \in {_split_compiler(command, tools_, env)}})

\* Compilation.iter_from_execution: the records the generator yields, or the
\* exception that leaves it. A StopIteration from _split_command reaches the
\* generator frame: it ends the generator (no record) or, under PEP 479,
\* becomes a RuntimeError.
iter_from_execution(execution, tools_, env) ==
    The({IF candidate.st = "raise"
         THEN IF candidate.exc = "StopIteration"
              THEN IF env.pep479 THEN Raise("RuntimeError") ELSE Ok(<<>>)
              ELSE candidate
         ELSE IF candidate.st = "none" THEN Ok(<<>>)
         ELSE LET c == candidate.value
                  output == IF c.output # <<>> THEN <<c.output[1]>> ELSE <<>>
                  phase == IF c.phase # <<>> THEN c.phase[1] ELSE "-c"
                  made == [k \in 1..Len(c.files) |->
                               Compilation(c.compiler, c.language, phase, c.flags,
                                           c.files[k], execution.cwd, output)]
              IN  Ok(SelectSeq(made, LAMBDA result : isfile(result.source))) :
         candidate \in {_split_command(execution.cmd, tools_, env)}})

\* Execution(cwd, cmd)
Execution(cwd, cmd) == [cwd |-> cwd, cmd |-> cmd]

\* Compilation.from_db_entry
from_db_entry(entry, tools_, env) ==
    LET has_command == "command" \in DOMAIN entry
        split == IF has_command THEN shell_split(entry.command)
                 ELSE [ok |-> TRUE, tokens |-> <<>>]
        command == IF has_command THEN split.tokens ELSE entry.arguments
    IN  IF ~split.ok THEN Raise("ValueError")
        ELSE The({iter_from_execution(Execution(entry.directory, tokens), tools_,
                                      env) : tokens \in {command}})

\* ------------------------------------------------------------------------
\* Trace files: parse_exec_trace
\* ------------------------------------------------------------------------
\* ASCII in code order: the characters 32..95 and 97..126 (the tokens of the
\* model use no other byte); a trace file is a tuple of byte values 0..255
PrintableLow ==
    " !\"#$%&'()*+,-./0123456789:;<=>?@ABCDEFGHIJKLMNOPQRSTUVWXYZ[\\]^_"

PrintableHigh == "abcdefghijklmnopqrstuvwxyz{|}~"

FirstLow == 32

FirstHigh == 97

Index(table, c) == CHOOSE i \in 1..Len(table) : Char(table, i) = c

Ord(c) ==
    IF \E i \in 1..Len(PrintableLow) : Char(PrintableLow, i) = c
    THEN FirstLow - 1 + Index(PrintableLow, c)
    ELSE FirstHigh - 1 + Index(PrintableHigh, c)

IsAscii(b) ==
    \/ b >= FirstLow /\ b < FirstLow + Len(PrintableLow)
    \/ b >= FirstHigh /\ b < FirstHigh + Len(PrintableHigh)

Chr(b) ==
    IF b < FirstHigh THEN Char(PrintableLow, b - FirstLow + 1)
    ELSE Char(PrintableHigh, b - FirstHigh + 1)

Bytes(s) == [i \in 1..Len(s) |-> Ord(Char(s, i))]

Decodable(bytes) == \A i \in 1..Len(bytes) : IsAscii(bytes[i])

\* bytes.decode("utf-8") of bytes that are all ASCII
RECURSIVE Decode(_)
Decode(bytes) == IF bytes = <<>> THEN "" ELSE Chr(Head(bytes)) \o Decode(Tail(bytes))

\* the type tags of the framing
TagStr == Bytes("str")
TagLst == Bytes("lst")

\* handler.read(n) at offset pos (0-based): at most n bytes, fewer at the end
Read(file, pos, n) ==
    SubSeq(file, pos + 1, IF pos + n <= Len(file) THEN pos + n ELSE Len(file))

\* struct.unpack_from("=I", byte)[0] of four bytes, little-endian
byte_to_int(byte) ==
    byte[1] + 256 * byte[2] + 65536 * byte[3] + 16777216 * byte[4]

\* parse_length: [ok, value, pos, short]; ok = FALSE is the exception
\* ("type not expected", or struct.error on fewer than 4 bytes); short
\* records that a read returned fewer bytes than asked for
parse_length(file, pos, expected_type) ==
    LET type_bytes == Read(file, pos, 3)
        length_bytes == Read(file, pos + 3, 4)
    IN  IF type_bytes # expected_type
        THEN [ok |-> FALSE, value |-> 0, pos |-> pos + Len(type_bytes),
              short |-> Len(type_bytes) < 3]
        ELSE IF Len(length_bytes) < 4
        THEN [ok |-> FALSE, value |-> 0, pos |-> pos + 3 + Len(length_bytes),
              short |-> TRUE]
        ELSE [ok |-> TRUE, value |-> byte_to_int(length_bytes), pos |-> pos + 7,
              short |-> FALSE]

\* parse_string: [ok, value, pos, short]
parse_string(file, pos) ==
    LET length == parse_length(file, pos, TagStr)
        value_bytes == Read(file, length.pos, length.value)
    IN  IF ~length.ok
        THEN [ok |-> FALSE, value |-> "", pos |-> length.pos, short |-> length.short]
        ELSE IF ~Decodable(value_bytes)
        THEN [ok |-> FALSE, value |-> "", pos |-> length.pos + Len(value_bytes),
              short |-> Len(value_bytes) < length.value]
        ELSE [ok |-> TRUE, value |-> Decode(value_bytes),
              pos |-> length.pos + Len(value_bytes),
              short |-> Len(value_bytes) < length.value]

\* the comprehension of parse_string_list: `left` more strings from pos
RECURSIVE ParseStrings(_, _, _, _, _)
ParseStrings(file, pos, left, acc, short) ==
    IF left = 0 THEN [ok |-> TRUE, value |-> acc, pos |-> pos, short |-> short]
    ELSE LET one == parse_string(file, pos)
         IN  IF ~one.ok
             THEN [ok |-> FALSE, value |-> <<>>, pos |-> one.pos,
                   short |-> short \/ one.short]
             ELSE ParseStrings(file, one.pos, left - 1, Append(acc, one.value),
                               short \/ one.short)

\* parse_string_list
parse_string_list(file, pos) ==
    LET length == parse_length(file, pos, TagLst)
    IN  IF ~length.ok
        THEN [ok |-> FALSE, value |-> <<>>, pos |-> length.pos,
              short |-> length.short]
        ELSE ParseStrings(file, length.pos, length.value, <<>>, FALSE)

\* the body of parse_exec_trace with what it observed: the Execution (or <<>>
\* for None), whether a type tag differed, whether a read came back short
ParseTrace(file) ==
    LET cwd == parse_string(file, 0)
        cmd == IF cwd.ok THEN parse_string_list(file, cwd.pos)
               ELSE [ok |-> FALSE, value |-> <<>>, pos |-> cwd.pos, short |-> FALSE]
    IN  [result |-> IF cwd.ok /\ cmd.ok THEN <<Execution(cwd.value, cmd.value)>>
                    ELSE <<>>,
         short |-> cwd.short \/ cmd.short]

\* parse_exec_trace(filename): <<Execution>>, or <<>> for None
parse_exec_trace(file) == ParseTrace(file).result

\* what the interception library writes for one execution (the framing of
\* the trace file format)
LE32(n) == <<n % 256, (n \div 256) % 256, (n \div 65536) % 256,
             (n \div 16777216) % 256>>

EncodeString(s) == TagStr \o LE32(Len(s)) \o Bytes(s)

RECURSIVE EncodeStrings(_)
EncodeStrings(list) ==
    IF list = <<>> THEN <<>>
    ELSE EncodeString(Head(list)) \o EncodeStrings(Tail(list))

EncodeTrace(execution) ==
    EncodeString(execution.cwd)
    \o TagLst \o LE32(Len(execution.cmd)) \o EncodeStrings(execution.cmd)

\* ------------------------------------------------------------------------
\* Python sets of Compilation objects
\* ------------------------------------------------------------------------
\* a list.append in the place of set.add
SetAddAlways(set, c) == Append(set, c)

\* a set.add that takes records of the same source file for the same record
SetAddBySource(set, c) ==
    IF \E i \in 1..Len(set) :
           set[i].directory = c.directory /\ set[i].source = c.source
    THEN set
    ELSE Append(set, c)

\* set.add: an element with the same hash that compares equal is kept, the
\* newcomer dropped; a set is kept here as its elements in insertion order
SetAdd(set, c) ==
    IF \E i \in 1..Len(set) : hash(set[i]) = hash(c) /\ eq(set[i], c)
    THEN set
    ELSE Append(set, c)

\* set(iterable)
RECURSIVE SetOf(_, _)
SetOf(iterable, acc) ==
    IF iterable = <<>> THEN acc
    ELSE SetOf(Tail(iterable), SetAdd(acc, Head(iterable)))

\* iter(set): the elements in an order the hash table decides
IterOrders(set) ==
    LET n == Len(set)
        bijections == {f \in [1..n -> 1..n] : \A i, j \in 1..n : f[i] = f[j] => i = j}
    IN  {[i \in 1..n |-> set[f[i]]] : f \in bijections}

\* ------------------------------------------------------------------------
\* include (the filter of capture)
\* ------------------------------------------------------------------------
make_absolute(directory) ==
    IF isabs(directory) THEN directory ELSE normpath(join(GetCwd, directory))

\* include(includes, excludes)(candidate)
include_filter(includes, excludes, candidate) ==
    LET include_dirs == [i \in 1..Len(includes) |-> make_absolute(includes[i])]
        exclude_dirs == [i \in 1..Len(excludes) |-> make_absolute(excludes[i])]
        contains(container, directory) == StartsWith(directory, container)
        source == candidate.source
        needed == IF Len(include_dirs) = 0 THEN TRUE
                  ELSE \E i \in 1..Len(include_dirs) : contains(include_dirs[i], source)
        rejected == IF Len(exclude_dirs) = 0 THEN FALSE
                    ELSE ~(\A i \in 1..Len(exclude_dirs) :
                               ~contains(exclude_dirs[i], source))
    IN  needed /\ ~rejected

\* ------------------------------------------------------------------------
\* CompilationDatabase
\* ------------------------------------------------------------------------
\* the comprehension of CompilationDatabase.save
save_entries(iterator, field_output) ==
    [i \in 1..Len(iterator) |-> as_db_entry(iterator[i], field_output)]

\* CompilationDatabase.load: the compilations of all entries in file order,
\* or the exception one of them raises
RECURSIVE LoadEntries(_, _, _, _)
LoadEntries(content, tools_, env, acc) ==
    IF content = <<>> THEN Ok(acc)
    ELSE The({IF r.st = "raise" THEN r
              ELSE LoadEntries(Tail(content), tools_, env, acc \o r.value) :
              r \in {from_db_entry(Head(content), tools_, env)}})

load(content, tools_, env) == LoadEntries(content, tools_, env, <<>>)

\* ------------------------------------------------------------------------
\* Inputs of the runs
\* ------------------------------------------------------------------------
\* answers of an MPI wrapper to -show / --showme
Failed == [ok |-> FALSE, output |-> <<>>]
Answer(line) == [ok |-> TRUE, output |-> <<line>>]

MpiBroken == [q \in {"-show", "--showme"} |-> Failed]
MpiShow == [q \in {"-show", "--showme"} |->
               IF q = "-show" THEN Answer("gcc -I/mpi") ELSE Failed]
MpiShowme == [q \in {"-show", "--showme"} |->
                 IF q = "-show" THEN Failed ELSE Answer("ccache g++ -DMPI")]
MpiLoop == [q \in {"-show", "--showme"} |->
               IF q = "-show" THEN Answer("mpicc -O2") ELSE Failed]

MpiCatalog == {MpiBroken, MpiShow, MpiShowme, MpiLoop}

\* the parser's defaults for --use-cc, --use-c++ and --use-fortran
DefaultTools(only_use) == Tools(only_use, <<"cc">>, <<"c++">>, <<"f95">>)

\* executions a build performs
ExecPlain == Execution("/p", <<"gcc", "-c", "a.c">>)
ExecSameUnit == Execution("/p", <<"g++", "-c", "-o", "a.o", "a.c">>)
ExecDashName == Execution("/p", <<"gcc", "-c", "./-x.c">>)
ExecDangling == Execution("/p", <<"gcc", "-c", "b.c", "-o">>)
ExecMpi == Execution("/p", <<"mpicc", "-c", "b.c">>)
ExecWrapped == Execution("/p", <<"ccache", "distcc", "g++", "-c", "a.cpp">>)

\* trace files: well-formed ones, one cut inside the payload of its last
\* string, one cut inside a length field, one with a foreign type tag
Truncated(file, n) == SubSeq(file, 1, Len(file) - n)

WithTag(file, tag) == Bytes(tag) \o SubSeq(file, 4, Len(file))

TraceCatalog ==
    {EncodeTrace(ExecPlain), EncodeTrace(ExecSameUnit), EncodeTrace(ExecDashName),
     EncodeTrace(ExecDangling), EncodeTrace(ExecMpi),
     Truncated(EncodeTrace(ExecWrapped), 2),
     WithTag(EncodeTrace(ExecPlain), "lst")}

TraceSeqs == UNION {[1..n -> TraceCatalog] : n \in 0..MaxTraces}

\* exit codes of the build command: a build that fails stops early and
\* leaves fewer than MaxTraces trace files
BuildFailed == 2

BuildCodes(traces) == IF Len(traces) < MaxTraces THEN {0, BuildFailed} ELSE {0}

\* a database written by another tool: a legacy "command" entry and an
\* "arguments" entry for the same translation unit
ExternalDb ==
    <<[directory |-> "/p", file |-> "a.c", command |-> "cc -c -DX=\"y z\" a.c"],
      [directory |-> "/p/sub/..", file |-> "a.c",
       arguments |-> <<"gcc", "-c", "-DX=y z", "-o", "a.o", "a.c">>]>>

\* a prior database whose entry has a command shlex cannot split
BrokenDb ==
    <<[directory |-> "/p", file |-> "a.c", command |-> "cc -c \"a.c"]>>

NoHist == [yielded |-> <<>>, prior |-> <<>>, files |-> 0]

UnitOff == [stage |-> "off"]

\* exit status of the interpreter after an uncaught exception
UncaughtExit == 1

\* ------------------------------------------------------------------------
\* intercept_build, step by step
\* ------------------------------------------------------------------------
Init ==
    /\ pep479 = <<>>
    /\ mpiEnv = <<>>
    /\ tools = DefaultTools(FALSE)
    /\ args \in {[append |-> FALSE, field_output |-> f,
                  include |-> <<>>, exclude |-> <<>>] : f \in BOOLEAN}
    /\ pc = "idle"
    /\ runs = 0
    /\ tmp_dir = <<>>
    /\ tmp_exists = FALSE
    /\ idx = 0
    /\ filtered = <<>>
    /\ previous = <<>>
    /\ entries = <<>>
    /\ cdb \in {[exists |-> FALSE, content |-> <<>>],
                [exists |-> TRUE, content |-> ExternalDb],
                [exists |-> TRUE, content |-> BrokenDb]}
    /\ exit_code = <<>>
    /\ build_code = 0
    /\ hist = NoHist
    /\ unit = UnitOff

\* the command of a database entry, as from_db_entry takes it
EntryCommand(entry) ==
    IF "command" \in DOMAIN entry THEN shell_split(entry.command).tokens
    ELSE entry.arguments

\* the command reaches the MPI branch of _split_compiler
RECURSIVE AsksMpi(_)
AsksMpi(command) ==
    /\ command # <<>>
    /\ IF is_wrapper(basename(command[1])) THEN AsksMpi(Tail(command))
       ELSE is_mpi_wrapper(basename(command[1]))

\* the surroundings a step that classifies `commands` may meet: the answers
\* of the MPI wrappers where a command asks one, the interpreter's handling
\* of a StopIteration inside a generator where a command raises one; what the
\* run has already seen of either stays as seen
EnvChoicesOf(answers, commands) ==
    LET asks == \E i \in 1..Len(commands) : AsksMpi(commands[i])
        stops(m) == \E i \in 1..Len(commands) :
                       _split_command(commands[i], tools,
                                      [mpi |-> m, pep479 |-> TRUE]).exc = "StopIteration"
        answered == IF mpiEnv # <<>> THEN {mpiEnv[1]}
                    ELSE IF asks THEN answers ELSE {MpiBroken}
        handled(m) == IF pep479 # <<>> THEN {pep479[1]}
                      ELSE IF stops(m) THEN BOOLEAN ELSE {TRUE}
    IN  UNION {{[mpi |-> m, pep479 |-> p] : p \in handled(m)} : m \in answered}

EnvChoices(commands) == EnvChoicesOf({MpiBroken, MpiShow}, commands)

\* what a step that classified `commands` under env has seen of env
Seen(commands, env) ==
    /\ mpiEnv' = IF \E i \in 1..Len(commands) : AsksMpi(commands[i])
                 THEN <<env.mpi>> ELSE mpiEnv
    /\ pep479' = IF \E i \in 1..Len(commands) :
                       _split_command(commands[i], tools, env).exc = "StopIteration"
                 THEN <<env.pep479>> ELSE pep479

\* a start of the run that opens the output file for writing at once
StartRunOpensFirst(append, traces, code) ==
    /\ pc = "idle"
    /\ runs < MaxRuns
    /\ hist.files + Len(traces) <= MaxTraces
    /\ runs' = runs + 1
    /\ hist' = [hist EXCEPT !.files = @ + Len(traces)]
    /\ args' = [args EXCEPT !.append = append]
    /\ tools' = DefaultTools(FALSE)
    /\ tmp_exists' = TRUE
    /\ tmp_dir' = traces
    /\ build_code' = code
    /\ idx' = 0
    /\ pc' = "decode"
    /\ cdb' = [exists |-> TRUE, content |-> <<>>]
    /\ UNCHANGED <<pep479, mpiEnv, filtered, previous, entries, exit_code, unit>>

\* parse_args_for_intercept_build, Tools(...), and in capture: mkdtemp,
\* run_build, and the listing of exec_trace_files
StartRun(append, traces, code) ==
    /\ pc = "idle"
    /\ runs < MaxRuns
    /\ hist.files + Len(traces) <= MaxTraces
    /\ runs' = runs + 1
    /\ hist' = [hist EXCEPT !.files = @ + Len(traces)]
    /\ args' = [args EXCEPT !.append = append]
    /\ tools' = DefaultTools(FALSE)
    /\ tmp_exists' = TRUE
    /\ tmp_dir' = traces
    /\ build_code' = code
    /\ idx' = 0
    /\ pc' = "decode"
    /\ UNCHANGED <<pep479, mpiEnv, filtered, previous, entries, cdb, exit_code,
                   unit>>

\* an exception nobody catches leaves capture (its temporary directory is
\* removed on the way) and intercept_build, and ends the process
Crash ==
    /\ pc' = "crashed"
    /\ tmp_exists' = FALSE
    /\ exit_code' = <<UncaughtExit>>

\* one round of `set(entry for entry in current if include_filter(entry))`:
\* the next trace file is parsed, its execution classified, its records
\* filtered and added
DecodeNext ==
    /\ pc = "decode"
    /\ idx < Len(tmp_dir)
    /\ \E call \in {parse_exec_trace(tmp_dir[idx + 1])} :
       \E env \in EnvChoices(IF call = <<>> THEN <<>> ELSE <<call[1].cmd>>) :
        LET found == IF call = <<>> THEN Ok(<<>>)
                     ELSE iter_from_execution(call[1], tools, env)
            kept == SelectSeq(found.value,
                              LAMBDA c : include_filter(args.include, args.exclude, c))
        IN  /\ Seen(IF call = <<>> THEN <<>> ELSE <<call[1].cmd>>, env)
            /\ IF found.st = "raise"
               THEN /\ Crash
                    /\ UNCHANGED <<idx, filtered, hist>>
               ELSE /\ idx' = idx + 1
                    /\ filtered' = SetOf(kept, filtered)
                    /\ hist' = [hist EXCEPT !.yielded = @ \o found.value]
                    /\ UNCHANGED <<pc, tmp_exists, exit_code>>
    /\ UNCHANGED <<tools, args, runs, tmp_dir, previous, entries, cdb, build_code,
                   unit>>

\* the end of capture: the with-block removes the temporary directory and
\* the iterator over the set is returned
FinishCapture ==
    /\ pc = "decode"
    /\ idx = Len(tmp_dir)
    /\ tmp_exists' = FALSE
    /\ filtered' \in IterOrders(filtered)
    /\ pc' = "merge"
    /\ UNCHANGED <<pep479, mpiEnv, tools, args, runs, tmp_dir, idx, previous,
                   entries, cdb, exit_code, build_code, hist, unit>>

\* intercept_build after capture: with --append and an existing file the
\* prior database is loaded and `set(chain(previous, current))` built
Merge ==
    /\ pc = "merge"
    /\ IF args.append /\ cdb.exists
       THEN \E env \in EnvChoices([i \in 1..Len(cdb.content) |->
                                        EntryCommand(cdb.content[i])]) :
            LET loaded == load(cdb.content, tools, env)
            IN  /\ Seen([i \in 1..Len(cdb.content) |-> EntryCommand(cdb.content[i])],
                        env)
                /\ IF loaded.st = "raise"
                   THEN /\ Crash
                        /\ UNCHANGED <<previous, filtered, hist>>
                   ELSE /\ previous' = loaded.value
                        /\ filtered' \in
                               IterOrders(SetOf(loaded.value \o filtered, <<>>))
                        /\ hist' = [hist EXCEPT !.yielded = loaded.value \o @]
                        /\ pc' = "save"
                        /\ UNCHANGED <<tmp_exists, exit_code>>
       ELSE /\ pc' = "save"
            /\ UNCHANGED <<pep479, mpiEnv, previous, filtered, hist, tmp_exists,
                           exit_code>>
    /\ UNCHANGED <<tools, args, runs, tmp_dir, idx, entries, cdb, build_code, unit>>

\* CompilationDatabase.save, first statement: every entry is built
Serialise ==
    /\ pc = "save"
    /\ entries' = save_entries(filtered, args.field_output)
    /\ pc' = "open"
    /\ UNCHANGED <<pep479, mpiEnv, tools, args, runs, tmp_dir, tmp_exists, idx,
                   filtered, previous, cdb, exit_code, build_code, hist, unit>>

\* open(filename, 'w'): the file exists and is empty
OpenWrite ==
    /\ pc = "open"
    /\ cdb' = [exists |-> TRUE, content |-> <<>>]
    /\ pc' = "dump"
    /\ UNCHANGED <<pep479, mpiEnv, tools, args, runs, tmp_dir, tmp_exists, idx,
                   filtered, previous, entries, exit_code, build_code, hist, unit>>

\* json.dump, close, and `return exit_code`
Dump ==
    /\ pc = "dump"
    /\ cdb' = [exists |-> TRUE, content |-> entries]
    /\ exit_code' = <<build_code>>
    /\ pc' = "exited"
    /\ UNCHANGED <<pep479, mpiEnv, tools, args, runs, tmp_dir, tmp_exists, idx,
                   filtered, previous, entries, build_code, hist, unit>>

\* the process is gone: only the output file stays (and, as an observation,
\* the records the last completed save was handed)
ProcessEnd ==
    /\ pc \in {"exited", "crashed"}
    /\ pc' = "idle"
    /\ hist' = [hist EXCEPT !.yielded = <<>>,
                            !.prior = IF pc = "exited" THEN filtered ELSE @]
    /\ pep479' = <<>>
    /\ mpiEnv' = <<>>
    /\ tmp_dir' = <<>>
    /\ idx' = 0
    /\ filtered' = <<>>
    /\ previous' = <<>>
    /\ entries' = <<>>
    /\ exit_code' = <<>>
    /\ build_code' = 0
    /\ UNCHANGED <<tools, args, runs, tmp_exists, cdb, unit>>

Next ==
    \/ \E append \in BOOLEAN, traces \in TraceSeqs :
          \E code \in BuildCodes(traces) : StartRun(append, traces, code)
    \/ DecodeNext
    \/ FinishCapture
    \/ Merge
    \/ Serialise
    \/ OpenWrite
    \/ Dump
    \/ ProcessEnd

Spec == Init /\ [][Next]_vars

\* ------------------------------------------------------------------------
\* One execution through the classifier and back through the database entry
\* ------------------------------------------------------------------------
\* the executables an execution starts with
Prefixes ==
    {<<"gcc">>, <<"cc">>, <<"g++">>, <<"ld">>, <<"mpicc">>, <<"ccache">>,
     <<"ccache", "gcc">>, <<"ccache", "distcc", "g++">>}

\* the tokens that follow
Vocabulary ==
    {"-c", "-E", "-o", "-D", "-MF", "-O2", "-lm", "a.c", "a.cpp", "./-x.c",
     "/p/./a.c"}

Arguments == UNION {[1..n -> Vocabulary] : n \in 0..MaxArgs}

\* longer command lines: an empty -o value; two phases, two outputs and a
\* source that is not on disk
Scenarios ==
    {<<"gcc", "-o", "", "a.c">>,
     <<"gcc", "-S", "-c", "-o", "x.o", "a.c", "z.c", "b.c", "-o", "y.o">>}

UnitExecutions ==
    {Execution("/p", p \o a) : p \in Prefixes, a \in Arguments}
    \cup {Execution("/p", command) : command \in Scenarios}

InitSplit ==
    /\ pep479 = <<>>
    /\ mpiEnv = <<>>
    /\ tools \in {DefaultTools(FALSE), DefaultTools(TRUE)}
    /\ args = [append |-> FALSE, field_output |-> FALSE,
               include |-> <<>>, exclude |-> <<>>]
    /\ pc = "unit"
    /\ runs = 0
    /\ tmp_dir = <<>>
    /\ tmp_exists = FALSE
    /\ idx = 0
    /\ filtered = <<>>
    /\ previous = <<>>
    /\ entries = <<>>
    /\ cdb = [exists |-> FALSE, content |-> <<>>]
    /\ exit_code = <<>>
    /\ build_code = 0
    /\ hist = NoHist
    /\ unit \in {[stage |-> "input", execution |-> e] : e \in UnitExecutions}

\* Compilation.iter_from_execution(execution, tools), run to its end
UnitSplit ==
    /\ unit.stage = "input"
    /\ \E env \in EnvChoicesOf(MpiCatalog, <<unit.execution.cmd>>) :
        /\ Seen(<<unit.execution.cmd>>, env)
        /\ unit' = [stage |-> "split", execution |-> unit.execution,
                    result |-> iter_from_execution(unit.execution, tools, env)]
    /\ UNCHANGED <<tools, args, pc, runs, tmp_dir, tmp_exists, idx, filtered,
                   previous, entries, cdb, exit_code, build_code, hist>>

\* as_db_entry(field_output) of one of the records
UnitEntry ==
    /\ unit.stage = "split"
    /\ \E i \in 1..Len(unit.result.value), field_output \in BOOLEAN :
        /\ args' = [args EXCEPT !.field_output = field_output]
        /\ unit' = [stage |-> "entry", execution |-> unit.execution,
                    result |-> unit.result, record |-> unit.result.value[i],
                    entry |-> as_db_entry(unit.result.value[i], field_output)]
    /\ UNCHANGED <<pep479, mpiEnv, tools, pc, runs, tmp_dir, tmp_exists, idx,
                   filtered, previous, entries, cdb, exit_code, build_code, hist>>

\* Compilation.from_db_entry(entry, tools), run to its end
UnitReload ==
    /\ unit.stage = "entry"
    /\ \E env \in EnvChoicesOf(MpiCatalog, <<EntryCommand(unit.entry)>>) :
        /\ Seen(<<EntryCommand(unit.entry)>>, env)
        /\ unit' = [stage |-> "reloaded", execution |-> unit.execution,
                    result |-> unit.result, record |-> unit.record,
                    entry |-> unit.entry,
                    back |-> from_db_entry(unit.entry, tools, env)]
    /\ UNCHANGED <<tools, args, pc, runs, tmp_dir, tmp_exists, idx, filtered,
                   previous, entries, cdb, exit_code, build_code, hist>>

NextSplit ==
    \/ UnitSplit
    \/ UnitEntry
    \/ UnitReload

SpecSplit == InitSplit /\ [][NextSplit]_vars

\* ------------------------------------------------------------------------
\* Properties
\* ------------------------------------------------------------------------
\* the identity the documentation gives a record
Key(c) == <<c.directory, c.source, c.phase, c.flags>>

HandedToSave == pc \in {"save", "open", "dump", "exited"}

\* C1: in every run the records handed to CompilationDatabase.save never
\* hold two records with equal (directory, source, phase, flags)
C1_SavedRecordsDistinct ==
    HandedToSave =>
        \A i, j \in 1..Len(filtered) :
            Key(filtered[i]) = Key(filtered[j]) => i = j

\* two of the records the run met had the same identity, and save is called
C1_Witness ==
    /\ pc = "save"
    /\ filtered # <<>>
    /\ \E i, j \in 1..Len(hist.yielded) :
          i # j /\ Key(hist.yielded[i]) = Key(hist.yielded[j])

\* C2: two Compilation values are equal exactly when their (directory,
\* source, phase, flags) are equal, whatever their compiler, output and
\* language, and equal values have equal hashes
C2_EqualityIsKey ==
    \A i, j \in 1..Len(hist.yielded) :
        LET a == hist.yielded[i]
            b == hist.yielded[j]
        IN  /\ eq(a, b) <=> Key(a) = Key(b)
            /\ eq(a, b) => hash(a) = hash(b)

\* the run met two equal records that differ in compiler, language and
\* output, and two records that are not equal
C2_Witness ==
    /\ \E i, j \in 1..Len(hist.yielded) :
          LET a == hist.yielded[i]
              b == hist.yielded[j]
          IN  /\ eq(a, b)
              /\ a.compiler # b.compiler
              /\ a.language # b.language
              /\ a.output # b.output
    /\ \E i, j \in 1..Len(hist.yielded) : ~eq(hist.yielded[i], hist.yielded[j])

\* C3: after a run with --append every record of the prior database and
\* every record the run met is represented (under Compilation equality) in
\* the records written
C3_AppendKeepsUnion ==
    (pc = "exited" /\ args.append) =>
        /\ \A i \in 1..Len(hist.prior) :
              \E j \in 1..Len(filtered) : eq(hist.prior[i], filtered[j])
        /\ \A i \in 1..Len(hist.yielded) :
              \E j \in 1..Len(filtered) : eq(hist.yielded[i], filtered[j])

\* the classifier's surroundings as the run has seen them
CurrentEnv ==
    [mpi |-> IF mpiEnv = <<>> THEN MpiBroken ELSE mpiEnv[1],
     pep479 |-> IF pep479 = <<>> THEN TRUE ELSE pep479[1]]

Classified == unit.stage \in {"split", "entry", "reloaded"}

AbortTokens == {"-E", "-M", "-MM", "-###", "-cc1", "-cc1as"}

\* tokens an option takes from the command line after itself
Consumes(token) ==
    IF token \in DOMAIN IGNORED_FLAGS THEN IGNORED_FLAGS[token]
    ELSE IF token \in {"-D", "-U", "-I", "-include", "-o"} THEN 1
    ELSE 0

\* the positions of arguments that are read as options or files, from i on
RECURSIVE OptionPositions(_, _)
OptionPositions(arguments, i) ==
    IF i > Len(arguments) THEN {}
    ELSE {i} \cup OptionPositions(arguments, i + 1 + Consumes(arguments[i]))

\* the arguments _split_command scans for the execution under test
ScannedArguments ==
    The({IF r.st = "ok" THEN <<r.value[3]>> ELSE <<>> :
         r \in {_split_compiler(unit.execution.cmd, tools, CurrentEnv)}})

\* C4 as stated: an execution whose argv holds one of -E, -M, -MM, -###,
\* -cc1, -cc1as at any position yields no record
C4_AnyPositionAborts ==
    (Classified /\ \E i \in 1..Len(unit.execution.cmd) :
                      unit.execution.cmd[i] \in AbortTokens)
        => unit.result.value = <<>>

\* C4 amended: an execution yields no record when one of those tokens
\* stands among the scanned arguments where an option is read, that is, not
\* as the value taken by a preceding -o, -D, -U, -I, -include or ignored flag
C4_OptionPositionAborts ==
    (Classified /\ ScannedArguments # <<>>) =>
        LET arguments == ScannedArguments[1]
        IN  (\E i \in OptionPositions(arguments, 1) : arguments[i] \in AbortTokens)
                => unit.result.value = <<>>

\* an abort token at an option position of a command that names a source
C4_Witness ==
    /\ Classified
    /\ ScannedArguments # <<>>
    /\ LET arguments == ScannedArguments[1]
       IN  /\ \E i \in OptionPositions(arguments, 1) : arguments[i] \in AbortTokens
           /\ \E i \in OptionPositions(arguments, 1) : arguments[i] = "a.c"
    /\ unit.result.value = <<>>

\* C5: the entry of a record, read back by from_db_entry with the same
\* tools, yields exactly one Compilation, equal to the record
C5_RoundTrip ==
    unit.stage = "reloaded" =>
        /\ unit.back.st = "ok"
        /\ Len(unit.back.value) = 1
        /\ eq(unit.back.value[1], unit.record)

\* the trace file the decoder is at holds an execution for which P holds
AtExecution(P(_)) ==
    /\ pc \in {"decode", "crashed"}
    /\ idx < Len(tmp_dir)
    /\ \E call \in {parse_exec_trace(tmp_dir[idx + 1])} : call # <<>> /\ P(call[1])

IsMpiCall(execution) ==
    execution.cmd # <<>> /\ is_mpi_wrapper(basename(execution.cmd[1]))

\* C6: an execution of an MPI wrapper whose -show and --showme queries both
\* fail does not abort the run
C6_MpiFailureIsLocal ==
    (AtExecution(IsMpiCall) /\ mpiEnv = <<MpiBroken>>) => pc # "crashed"

\* C7: a trace file with a foreign type tag or a short read, also inside
\* the payload of a string, is discarded
C7_ShortReadDiscards ==
    \A i \in 1..idx :
        \E parsed \in {ParseTrace(tmp_dir[i])} :
            (parsed.short \/ Read(tmp_dir[i], 0, 3) # TagStr) =>
                parse_exec_trace(tmp_dir[i]) = <<>>

\* a recognised compiler whose last token takes a following argument
IsDangling(execution) ==
    /\ execution.cmd # <<>>
    /\ is_c_compiler(tools, basename(execution.cmd[1]))
    /\ Consumes(execution.cmd[Len(execution.cmd)]) = 1

\* C8: an execution of a recognised compiler whose argv ends with an option
\* that lacks its argument does not stop the pipeline
C8_DanglingOptionIsLocal ==
    AtExecution(IsDangling) => pc # "crashed"

Range(seq) == {seq[i] : i \in 1..Len(seq)}

\* C9: with only_use a record is yielded only for an executable whose
\* basename is one of the declared compilers
C9_OnlyDeclared ==
    (Classified /\ tools.ignore) =>
        \A i \in 1..Len(unit.result.value) :
            basename(unit.result.value[i].compiler) \in
                Range(tools.c_compilers) \cup Range(tools.cxx_compilers)
                \cup Range(tools.fortran_compilers)

\* the number of wrappers argv starts with
RECURSIVE LeadingWrappers(_)
LeadingWrappers(command) ==
    IF command # <<>> /\ is_wrapper(basename(command[1]))
    THEN 1 + LeadingWrappers(Tail(command))
    ELSE 0

IsCompiler(name) ==
    /\ ~is_mpi_wrapper(name)
    /\ \/ is_c_compiler(tools, name)
       \/ is_cxx_compiler(tools, name)
       \/ is_fortran_compiler(tools, name)

LanguageOf(name) ==
    IF is_c_compiler(tools, name) THEN C_LANG
    ELSE IF is_cxx_compiler(tools, name) THEN CPLUSPLUS_LANG
    ELSE FORTRAN_LANG

\* argv is wrappers, then a recognised compiler
WrappedCompiler ==
    LET command == unit.execution.cmd
        k == LeadingWrappers(command)
    IN  k >= 1 /\ k < Len(command) /\ IsCompiler(basename(command[k + 1]))

\* C10 as stated: for wrappers followed by a recognised compiler the
\* record's compiler is argv[0], its language that of the inner compiler
C10_CompilerIsOutermost ==
    (Classified /\ WrappedCompiler) =>
        LET command == unit.execution.cmd
            inner == command[LeadingWrappers(command) + 1]
        IN  \A i \in 1..Len(unit.result.value) :
                /\ unit.result.value[i].compiler = command[1]
                /\ unit.result.value[i].language = LanguageOf(basename(inner))

\* C10 amended: the record's compiler is the argv token of the inner
\* compiler, the first token after the wrappers, and its language is that
\* compiler's
C10_CompilerIsInner ==
    (Classified /\ WrappedCompiler) =>
        LET command == unit.execution.cmd
            inner == command[LeadingWrappers(command) + 1]
        IN  \A i \in 1..Len(unit.result.value) :
                /\ unit.result.value[i].compiler = inner
                /\ unit.result.value[i].language = LanguageOf(basename(inner))

\* [ccache, distcc, g++, -c, a.cpp] gave its record
C10_Witness ==
    /\ Classified
    /\ unit.execution.cmd = <<"ccache", "distcc", "g++", "-c", "a.cpp">>
    /\ Len(unit.result.value) = 1
    /\ unit.result.value[1].compiler = "g++"
    /\ unit.result.value[1].language = CPLUSPLUS_LANG
    /\ unit.result.value[1].phase = "-c"
    /\ unit.result.value[1].flags = <<>>

WrapperNames == {"ccache", "distcc"}

\* the number of leading tokens of command that name a wrapper
RECURSIVE LeadingWrapperNames(_)
LeadingWrapperNames(command) ==
    IF command # <<>> /\ command[1] \in WrapperNames
    THEN 1 + LeadingWrapperNames(Tail(command))
    ELSE 0

\* argv without its leading wrapper tokens
Peeled(command) ==
    SubSeq(command, LeadingWrapperNames(command) + 1, Len(command))

\* argv is one or more wrapper tokens, then the argv of a recognised compiler
PeelsToCompiler ==
    LET command == unit.execution.cmd
    IN  /\ LeadingWrapperNames(command) >= 1
        /\ Peeled(command) # <<>>
        /\ IsCompiler(basename(Peeled(command)[1]))

\* C11: the execution (cwd, wrappers ++ A) of a recognised compiler argv A
\* yields the same sequence of records as the execution (cwd, A)
C11_PeelingIsIdempotent ==
    (Classified /\ PeelsToCompiler) =>
        unit.result = iter_from_execution(
                          Execution(unit.execution.cwd, Peeled(unit.execution.cmd)),
                          tools, CurrentEnv)

\* two wrappers were peeled off a command that gave a record
C11_Witness ==
    /\ Classified
    /\ PeelsToCompiler
    /\ LeadingWrapperNames(unit.execution.cmd) = 2
    /\ unit.result.st = "ok"
    /\ unit.result.value # <<>>

\* a token of the form -l<x>, -L<x> or -Wl,<x> with <x> not empty
LinkerLike(token) ==
    \/ Len(token) >= 3 /\ SubSeq(token, 1, 2) \in {"-l", "-L"}
    \/ Len(token) >= 5 /\ SubSeq(token, 1, 4) = "-Wl,"

ValueOptions == {"-D", "-U", "-I", "-include"}

\* C12 as stated: no flag of a record has the form -l<x>, -L<x> or -Wl,<x>
C12_NoLinkerFlags ==
    Classified =>
        \A i \in 1..Len(unit.result.value) :
            \A j \in 1..Len(unit.result.value[i].flags) :
                ~LinkerLike(unit.result.value[i].flags[j])

\* C12 amended: a flag of that form is in a record only as the value that
\* directly follows one of -D, -U, -I, -include
C12_LinkerFlagsOnlyAsValues ==
    Classified =>
        \A i \in 1..Len(unit.result.value) :
            LET flags == unit.result.value[i].flags
            IN  \A j \in 1..Len(flags) :
                    LinkerLike(flags[j]) => j > 1 /\ flags[j - 1] \in ValueOptions

\* a record of a command with -lm where an option is read: the flag is gone
C12_Witness ==
    /\ Classified
    /\ ScannedArguments # <<>>
    /\ \E i \in OptionPositions(ScannedArguments[1], 1) :
          ScannedArguments[1][i] = "-lm"
    /\ unit.result.value # <<>>
    /\ \A j \in 1..Len(unit.result.value[1].flags) :
          ~LinkerLike(unit.result.value[1].flags[j])

\* the ignored flags as documented: those that stand alone and those that
\* take the next token with them
IgnoredAlone ==
    {"-MD", "-MMD", "-MG", "-MP", "-static", "-shared", "-s", "-rdynamic",
     "-nologo", "-EHsc", "-EHa"}

IgnoredWithValue == {"-MF", "-MT", "-MQ", "-l", "-L", "-u", "-z", "-T", "-Xlinker"}

\* tokens the scan takes together with the token it reads at an option position
Takes(token) ==
    IF token \in IgnoredWithValue \cup ValueOptions \cup {"-o"} THEN 1 ELSE 0

RECURSIVE ReadPositions(_, _)
ReadPositions(arguments, i) ==
    IF i > Len(arguments) THEN {}
    ELSE {i} \cup ReadPositions(arguments, i + 1 + Takes(arguments[i]))

\* the positions of the ignored flags among `keys` and of the tokens they skip
SkippedBy(arguments, keys) ==
    UNION {IF arguments[i] \in IgnoredWithValue
           THEN {i, i + 1} \cap (1..Len(arguments))
           ELSE {i} : i \in {k \in keys : arguments[k] \in IgnoredAlone \cup IgnoredWithValue}}

Count(seq, token) == Cardinality({j \in 1..Len(seq) : seq[j] = token})

\* every flag of every record comes from a position outside `skipped`
FlagsAvoid(arguments, skipped) ==
    \A i \in 1..Len(unit.result.value) :
        LET flags == unit.result.value[i].flags
        IN  \A j \in 1..Len(flags) :
                Count(flags, flags[j]) <=
                    Cardinality({k \in (1..Len(arguments)) \ skipped :
                                     arguments[k] = flags[j]})

\* C13 as stated: an ignored flag and the tokens it skips are not in the
\* flags of the records, at whatever position the flag stands
C13_IgnoredAnywhere ==
    (Classified /\ ScannedArguments # <<>>) =>
        FlagsAvoid(ScannedArguments[1],
                   SkippedBy(ScannedArguments[1], 1..Len(ScannedArguments[1])))

\* C13 amended: an ignored flag that the scan reads at an option position,
\* and the tokens it skips, are not in the flags of the records
C13_IgnoredWhereRead ==
    (Classified /\ ScannedArguments # <<>>) =>
        FlagsAvoid(ScannedArguments[1],
                   SkippedBy(ScannedArguments[1], ReadPositions(ScannedArguments[1], 1)))

\* -MF read as an option skipped a token that would have been a flag
C13_Witness ==
    /\ Classified
    /\ ScannedArguments # <<>>
    /\ \E i \in ReadPositions(ScannedArguments[1], 1) :
          /\ ScannedArguments[1][i] = "-MF"
          /\ i < Len(ScannedArguments[1])
          /\ ScannedArguments[1][i + 1] = "-O2"
    /\ unit.result.value # <<>>
    /\ unit.result.value[1].flags = <<>>

\* absolute and normalised directory; absolute, normalised, existing source
WellFormed(c) ==
    /\ isabs(c.directory)
    /\ normpath(c.directory) = c.directory
    /\ isabs(c.source)
    /\ normpath(c.source) = c.source
    /\ isfile(c.source)

\* C14: every record yielded, from an execution or from a database entry,
\* has an absolute normalised directory and an absolute, normalised source
\* that names an existing file
C14_PathsNormalised ==
    /\ Classified =>
          \A i \in 1..Len(unit.result.value) : WellFormed(unit.result.value[i])
    /\ unit.stage = "reloaded" =>
          \A i \in 1..Len(unit.back.value) : WellFormed(unit.back.value[i])

Reverse(seq) == [i \in 1..Len(seq) |-> seq[Len(seq) + 1 - i]]

\* the records capture collects from the trace files taken in the given order
RECURSIVE CaptureOf(_, _)
CaptureOf(files, acc) ==
    IF files = <<>> THEN acc
    ELSE LET call == parse_exec_trace(Head(files))
             found == IF call = <<>> THEN <<>>
                      ELSE iter_from_execution(call[1], tools, CurrentEnv).value
             kept == SelectSeq(found,
                               LAMBDA c : include_filter(args.include, args.exclude, c))
         IN  CaptureOf(Tail(files), SetOf(kept, acc))

\* the records the run hands to save when it takes its trace files in the
\* given order and chains the prior records before or after the new ones
HandedOver(files, prior_first) ==
    LET current == CaptureOf(files, <<>>)
    IN  IF args.append /\ cdb.exists
        THEN IF prior_first THEN SetOf(previous \o current, <<>>)
             ELSE SetOf(current \o previous, <<>>)
        ELSE current

OtherOrders ==
    {HandedOver(files, first) : files \in {tmp_dir, Reverse(tmp_dir)},
                                first \in BOOLEAN}

EntrySet(records) ==
    {as_db_entry(records[i], args.field_output) : i \in 1..Len(records)}

EntryIdentity(c) ==
    LET e == as_db_entry(c, args.field_output)
    IN  <<e.directory, e.file, c.phase, c.flags>>

IdentitySet(records) == {EntryIdentity(records[i]) : i \in 1..Len(records)}

\* C15 as stated: whatever the order of processing, the set of entries
\* written is the same
C15_OrderUnobservable ==
    pc = "save" =>
        \A other \in OtherOrders : EntrySet(other) = EntrySet(filtered)

\* C15 amended: whatever the order of processing, the written entries cover
\* the same set of (directory, file, phase, flags); which of several equal
\* records gives its compiler and output to the entry depends on the order
C15_OrderKeepsIdentities ==
    pc = "save" =>
        \A other \in OtherOrders : IdentitySet(other) = IdentitySet(filtered)

\* a run in which another order would have written other entries
C15_Witness ==
    /\ pc = "save"
    /\ Len(tmp_dir) = 2
    /\ \E other \in OtherOrders : EntrySet(other) # EntrySet(filtered)

HasEntry == unit.stage \in {"entry", "reloaded"}

\* the entry of unit.record is as documented, `with_output` telling whether
\* the record counts as having an -o value
EntryAsDocumented(with_output) ==
    LET c == unit.record
        e == unit.entry
    IN  /\ e.file = relpath(c.source, c.directory)
        /\ e.directory = c.directory
        /\ e.arguments = <<c.compiler, c.phase>> \o c.flags
                         \o (IF with_output THEN <<"-o", c.output[1]>> ELSE <<>>)
                         \o <<e.file>>
        /\ ("output" \in DOMAIN e) <=> (with_output /\ args.field_output)
        /\ ("output" \in DOMAIN e) => e.output = c.output[1]

\* C16 as stated: arguments hold -o and its value, and with field_output the
\* entry has an output key, exactly when an -o value was observed
C16_EntryOfObservedOutput ==
    HasEntry => EntryAsDocumented(unit.record.output # <<>>)

\* C16 amended: ... exactly when a non-empty -o value was observed
C16_EntryOfNonEmptyOutput ==
    HasEntry =>
        EntryAsDocumented(unit.record.output # <<>> /\ unit.record.output[1] # "")

\* entries were built with and without an -o value, and for an empty one
C16_Witness ==
    /\ HasEntry
    /\ unit.record.output = <<"">>
    /\ args.field_output
    /\ "output" \notin DOMAIN unit.entry

\* C17: a run that ends has an exit code, which is 64 when an error was
\* raised during capture, load or save, and the build's exit code otherwise
C17_ExitCodeOfRun ==
    /\ pc \in {"crashed", "exited"} => exit_code # <<>>
    /\ pc = "crashed" => exit_code = <<64>>
    /\ pc = "exited" => exit_code = <<build_code>>

\* the token is read as a source file where the scan reads it as an option
SourceLike(token) ==
    /\ Len(token) >= 2
    /\ Char(token, 1) # "-"
    /\ classify_source(token) # <<>>

\* the file a source token of a command run in `directory` names
Named(directory, token) ==
    IF isabs(token) THEN token ELSE normpath(join(normpath(directory), token))

\* the source tokens the scan collects from position i on, in command-line
\* order, each with whether the file is on disk
RECURSIVE CollectedSources(_, _, _)
CollectedSources(directory, arguments, i) ==
    IF i > Len(arguments) THEN <<>>
    ELSE (IF SourceLike(arguments[i])
          THEN <<[token |-> arguments[i],
                  file |-> Named(directory, arguments[i]),
                  exists |-> normpath(Named(directory, arguments[i]))
                                 \in ExistingFiles]>>
          ELSE <<>>)
         \o CollectedSources(directory, arguments, i + 1 + Takes(arguments[i]))

\* the scan of `arguments` runs to its end: no abort token is read, and no
\* token that takes a value is the last one
ScanCompletes(arguments) ==
    \A i \in ReadPositions(arguments, 1) :
        /\ arguments[i] \notin AbortTokens
        /\ Takes(arguments[i]) = 1 => i < Len(arguments)

FirstOf(positions) == CHOOSE i \in positions : \A j \in positions : i <= j

\* the phase of the records: the first -c or -S read, "-c" without one
PhaseOf(arguments) ==
    LET at == {i \in ReadPositions(arguments, 1) : arguments[i] \in {"-c", "-S"}}
    IN  IF at = {} THEN "-c" ELSE arguments[FirstOf(at)]

\* the output of the records: the value of the first -o read, if any
OutputOf(arguments) ==
    LET at == {i \in ReadPositions(arguments, 1) : arguments[i] = "-o"}
    IN  IF at = {} THEN <<>> ELSE <<arguments[FirstOf(at) + 1]>>

\* C18: one record per collected source that exists, in command-line order
\* (none without sources); the records share flags, phase (the first -c/-S
\* read, else "-c") and output (the value of the first -o, else absent)
C18_RecordPerExistingSource ==
    (Classified /\ ScannedArguments # <<>> /\ ScanCompletes(ScannedArguments[1])) =>
        LET arguments == ScannedArguments[1]
            collected == CollectedSources(unit.execution.cwd, arguments, 1)
            existing == SelectSeq(collected, LAMBDA s : s.exists)
            records == unit.result.value
        IN  /\ unit.result.st = "ok"
            /\ Len(records) = Len(existing)
            /\ \A i \in 1..Len(records) :
                /\ records[i].source = existing[i].file
                /\ records[i].flags = records[1].flags
                /\ records[i].phase = PhaseOf(arguments)
                /\ records[i].output = OutputOf(arguments)

\* two records of one execution, with a missing source between their tokens
\* and a second -c/-S and -o that do not count
C18_Witness ==
    /\ Classified
    /\ ScannedArguments # <<>>
    /\ ScanCompletes(ScannedArguments[1])
    /\ Len(unit.result.value) = 2
    /\ LET collected == CollectedSources(unit.execution.cwd, ScannedArguments[1], 1)
       IN  /\ Len(collected) = 3
           /\ ~collected[2].exists
    /\ unit.result.value[1].phase = "-S"
    /\ unit.result.value[2].output = <<"x.o">>

\* C19: compiler resolution ends with a result for every argv, also for an
\* MPI wrapper whose answer begins with the name of an MPI wrapper
C19_ResolutionTerminates ==
    Classified =>
        LET r == _split_compiler(unit.execution.cmd, tools, CurrentEnv)
        IN  ~(r.st = "raise" /\ r.exc = "RecursionError")

\* the step removes the temporary trace directory
RemovesTraces == tmp_exists /\ ~tmp_exists'

\* the step writes to the output file
WritesOutput == cdb' # cdb

\* every input of the run has been consumed: the traces are all decoded and
\* their directory is gone, in append mode the prior database has been read
\* to its end, and the entries to write are built
InputsConsumed ==
    /\ idx = Len(tmp_dir)
    /\ ~tmp_exists
    /\ (args.append /\ cdb.exists) =>
           LET loaded == load(cdb.content, tools, CurrentEnv)
           IN  loaded.st = "ok" /\ previous = loaded.value
    /\ entries = save_entries(filtered, args.field_output)

\* C20: the trace directory is removed only after every trace file was
\* decoded, unless an error ends the run; the output file is written only
\* after every input was consumed; a run that ends in an error leaves the
\* output file as it was
C20_OutputOpenedLast ==
    [][/\ (RemovesTraces /\ pc' # "crashed") => idx = Len(tmp_dir)
       /\ WritesOutput => ((pc = "open" /\ InputsConsumed)
                            \/ (pc = "dump" /\ cdb.content = <<>>))
       /\ pc' = "crashed" => ~WritesOutput]_vars

\* a run decoded its traces and ended in an error while loading the prior
\* database, whose file is in place as it was
C20_Witness ==
    /\ pc = "crashed"
    /\ args.append
    /\ tmp_dir # <<>>
    /\ idx = Len(tmp_dir)
    /\ cdb = [exists |-> TRUE, content |-> BrokenDb]

====
